---- MODULE Spec2Model ----
(***************************************************************************)
(* Model of api/main.py: the EnvVar request model, its derivation methods  *)
(* (masked, protected, environment_scope, raw), its two payload            *)
(* projections (to_vercel_dict, to_gitlab_dict) and the two HTTP routes    *)
(* (GET /, POST /env).                                                     *)
(*                                                                         *)
(* JSON / Python values are tagged records so that None, strings and lists *)
(* can be told apart:  [t |-> "absent"]  a key missing from the body,      *)
(* [t |-> "none"] null / None, [t |-> "str", v |-> s], [t |-> "list",      *)
(* v |-> <<...>>].  The outcome of a call is Return(v) or Raise(exc).      *)
(***************************************************************************)
EXTENDS Integers, Sequences, FiniteSets, TLC

VARIABLES request, record, response, result

vars == <<request, record, response, result>>

----------------------------------------------------------------------------
(* Bounds and input alphabets *)

MaxTargetLen == 2

Absent == [t |-> "absent"]
None == [t |-> "none"]
Str(s) == [t |-> "str", v |-> s]
List(q) == [t |-> "list", v |-> q]

Return(v) == [ok |-> TRUE, value |-> v]
Raise(x) == [ok |-> FALSE, exc |-> x]

Range(q) == {q[i] : i \in 1..Len(q)}

SeqsUpTo(S, n) == UNION {[1..k -> S] : k \in 0..n}

KeyInputs == {Absent, Str("A")}
ValueInputs == {Absent, Str("1")}
TypeInputs == {Absent, Str("secret"), Str("encrypted"), Str("plain"), Str("bogus")}
TargetLabels == {"production", "preview", "development", "staging"}
TargetInputs == {Absent, None} \cup {List(q) : q \in SeqsUpTo(TargetLabels, MaxTargetLen)}
GitBranchInputs == {None, Str("main")}
DescriptionInputs == {None, Str("note")}

Bodies ==
    [key : KeyInputs, value : ValueInputs, type : TypeInputs,
     target : TargetInputs, git_branch : GitBranchInputs,
     description : DescriptionInputs]

----------------------------------------------------------------------------
(* Enumerations and constants of the module *)

GITLAB_VARIABLE_TYPE == "env_var"

EnvVarTarget == {"production", "preview", "development"}

EnvVarType == {"secret", "encrypted", "plain"}

\* Variant: the default lists production only.
TargetDefault_prodonly == <<"production">>

\* Field(default=[DEVELOPMENT, PREVIEW, PRODUCTION]); copied per instance.
TargetDefault == <<"development", "preview", "production">>

----------------------------------------------------------------------------
(* Validation of a request body against the EnvVar model *)

\* key: str and value: str -- required, not nullable
ValidStr(x) == x.t = "str"

\* Variant: any string is taken as a type (enum membership unchecked).
ValidType_anystr(x) == x.t = "str"

\* type: EnvVarType -- required, one of the enum's values
ValidType(x) == x.t = "str" /\ x.v \in EnvVarType

\* target: Optional[List[EnvVarTarget]] with a default -- may be omitted,
\* may be null, may be any list (empty, repeating) of enum values
ValidTarget(x) ==
    \/ x.t = "absent"
    \/ x.t = "none"
    \/ x.t = "list" /\ \A i \in 1..Len(x.v) : x.v[i] \in EnvVarTarget

\* git_branch / description: Optional[str]
ValidOptionalStr(x) == x.t \in {"none", "str"}

Validates(b) ==
    /\ ValidStr(b.key)
    /\ ValidStr(b.value)
    /\ ValidType(b.type)
    /\ ValidTarget(b.target)
    /\ ValidOptionalStr(b.git_branch)
    /\ ValidOptionalStr(b.description)

\* The record built from a body that validates.
EnvVar(b) ==
    [key |-> b.key.v,
     value |-> b.value.v,
     type |-> b.type.v,
     target |-> IF b.target.t = "absent" THEN List(TargetDefault) ELSE b.target,
     git_branch |-> b.git_branch,
     description |-> b.description]

----------------------------------------------------------------------------
(* Methods of EnvVar *)

\* Variant: only secret is masked.
masked_secretonly(e) == Return(e.type = "secret")

masked(e) == Return(e.type # "plain")

\* len(None) raises TypeError
protected(e) ==
    IF e.target.t = "none"
    THEN Raise("TypeError")
    ELSE Return(Len(e.target.v) = 1 /\ "production" \in Range(e.target.v))

environment_scope(e) == Return("*")

raw(e) == Return(TRUE)

\* Variant: git_branch and description land in each other's slot.
to_vercel_dict_swapped(e) ==
    Return([key |-> e.key,
            value |-> e.value,
            type |-> e.type,
            target |-> e.target,
            gitBranch |-> e.description,
            comment |-> e.git_branch])

to_vercel_dict(e) ==
    Return([key |-> e.key,
            value |-> e.value,
            type |-> e.type,
            target |-> e.target,
            gitBranch |-> e.git_branch,
            comment |-> e.description])

to_gitlab_dict(e) ==
    IF ~protected(e).ok THEN protected(e)
    ELSE Return([key |-> e.key,
                 value |-> e.value,
                 variable_type |-> GITLAB_VARIABLE_TYPE,
                 protected |-> protected(e).value,
                 masked |-> masked(e).value,
                 raw |-> raw(e).value,
                 environment_scope |-> environment_scope(e).value,
                 description |-> e.description])

----------------------------------------------------------------------------
(* State machine *)

NoRequest == [method |-> "none"]
NoRecord == [t |-> "norecord"]
NoResponse == [status |-> 0]
NoResult == [op |-> "none"]

Init ==
    /\ request = NoRequest
    /\ record = NoRecord
    /\ response = NoResponse
    /\ result = NoResult

\* GET / : fixed payload; no record is involved.
hello ==
    /\ request' = [method |-> "GET", path |-> "/"]
    /\ record' = NoRecord
    /\ response' = [status |-> 200, body |-> [hi |-> "there"]]
    /\ result' = NoResult

\* POST /env : the framework validates the body into an EnvVar; on failure
\* it answers 422 and the handler does not run; on success the handler runs,
\* its body is only a docstring, so it returns None (JSON null) and calls
\* none of the record's methods.
create_env_var ==
    \E b \in Bodies :
        /\ request' = [method |-> "POST", path |-> "/env", body |-> b]
        /\ IF Validates(b)
           THEN /\ record' = EnvVar(b)
                /\ response' = [status |-> 200, body |-> None]
           ELSE /\ record' = NoRecord
                /\ response' = [status |-> 422, body |-> [t |-> "detail"]]
        /\ result' = NoResult

\* A caller holding the record applies one of its methods.
Call(op, outcome) ==
    /\ record # NoRecord
    /\ result' = [op |-> op, ret |-> outcome]
    /\ UNCHANGED <<request, record, response>>

CallMasked == Call("masked", masked(record))
CallProtected == Call("protected", protected(record))
CallEnvironmentScope == Call("environment_scope", environment_scope(record))
CallRaw == Call("raw", raw(record))
CallToVercelDict == Call("to_vercel_dict", to_vercel_dict(record))
CallToGitlabDict == Call("to_gitlab_dict", to_gitlab_dict(record))

Next ==
    \/ hello
    \/ create_env_var
    \/ CallMasked
    \/ CallProtected
    \/ CallEnvironmentScope
    \/ CallRaw
    \/ CallToVercelDict
    \/ CallToGitlabDict

Spec == Init /\ [][Next]_vars

----------------------------------------------------------------------------
TypeOK ==
    /\ request.method \in {"none", "GET", "POST"}
    /\ response.status \in {0, 200, 422}
    /\ record # NoRecord => record.type \in EnvVarType

----------------------------------------------------------------------------
(* Properties *)

IsPostEnv == request.method = "POST" /\ request.path = "/env"
HasRecord == record # NoRecord
Called(op) == HasRecord /\ result.op = op

\* C1: for every accepted record whose target is a list, protected()
\* returns true iff the target read as a set is exactly {production}
\* (repeated elements included).
C1_ProtectedIffSetIsProduction ==
    (Called("protected") /\ record.target.t = "list")
        => result.ret = Return(Range(record.target.v) = {"production"})

\* C2: masked() returns false iff type is plain, true for secret and
\* encrypted, whatever the other fields are.
C2_MaskedIffNotPlain ==
    Called("masked") =>
        /\ result.ret.ok
        /\ (result.ret.value = FALSE) <=> (record.type = "plain")
        /\ record.type \in {"secret", "encrypted"} => result.ret.value = TRUE

C2_Witness ==
    /\ Called("masked")
    /\ record.type = "encrypted"
    /\ result.ret = Return(TRUE)

\* C3: a record constructed from a body that provides target has a target
\* that is a non-empty list over {production, preview, development}.
C3_ProvidedTargetNonEmptySubset ==
    (IsPostEnv /\ HasRecord /\ request.body.target # Absent) =>
        /\ record.target.t = "list"
        /\ Len(record.target.v) >= 1
        /\ Range(record.target.v) \subseteq {"production", "preview", "development"}

\* C4: a POST /env whose body misses key, value or type, or has a type
\* outside {secret, encrypted, plain}, or a target entry outside
\* {production, preview, development}, ends in a validation error, with no
\* record constructed and no derivation or projection computed.
C4_BadBody(b) ==
    \/ b.key = Absent
    \/ b.value = Absent
    \/ b.type = Absent
    \/ (b.type.t = "str" /\ b.type.v \notin {"secret", "encrypted", "plain"})
    \/ (b.target.t = "list" /\
          \E i \in 1..Len(b.target.v) :
             b.target.v[i] \notin {"production", "preview", "development"})

C4_InvalidBodyRejected ==
    (IsPostEnv /\ C4_BadBody(request.body)) =>
        /\ response.status = 422
        /\ record = NoRecord
        /\ result = NoResult

C4_Witness ==
    /\ IsPostEnv
    /\ request.body.key # Absent /\ request.body.value # Absent
    /\ request.body.type = Str("bogus")
    /\ response.status = 422
    /\ record = NoRecord

\* C5: a body that omits target yields a record whose target holds exactly
\* production, preview and development, each once, so protected() is false;
\* this holds after any sequence of earlier requests.
C5_OmittedTargetDefaultsToAllThree ==
    (IsPostEnv /\ HasRecord /\ request.body.target = Absent) =>
        /\ record.target.t = "list"
        /\ Len(record.target.v) = 3
        /\ Range(record.target.v) = {"production", "preview", "development"}
        /\ result.op = "protected" => result.ret = Return(FALSE)

C5_Witness ==
    /\ IsPostEnv /\ request.body.target = Absent
    /\ Called("protected")
    /\ result.ret = Return(FALSE)

\* C6: both projections carry key, value and description of the record
\* unchanged (comment on the deployment side, description on the CI/CD
\* side), description = null included.
C6_SharedFieldsRoundTrip ==
    /\ Called("to_vercel_dict") =>
          /\ result.ret.ok
          /\ result.ret.value.key = record.key
          /\ result.ret.value.value = record.value
          /\ result.ret.value.comment = record.description
    /\ Called("to_gitlab_dict") =>
          /\ result.ret.ok
          /\ result.ret.value.key = record.key
          /\ result.ret.value.value = record.value
          /\ result.ret.value.description = record.description

\* C7: for every record the CI/CD projection carries variable_type
\* "env_var", raw = true, environment_scope = "*", protected = protected()
\* and masked = masked(), and no field taken from git_branch or the raw
\* target list.
C7_GitlabProjection ==
    Called("to_gitlab_dict") =>
        /\ result.ret.ok
        /\ DOMAIN result.ret.value =
              {"key", "value", "variable_type", "protected", "masked",
               "raw", "environment_scope", "description"}
        /\ result.ret.value.variable_type = "env_var"
        /\ result.ret.value.raw = TRUE
        /\ result.ret.value.environment_scope = "*"
        /\ result.ret.value.masked = (record.type # "plain")
        /\ result.ret.value.protected =
              (Len(record.target.v) = 1 /\ record.target.v[1] = "production")

\* C8: the deployment projection has exactly the fields key, value, type,
\* target, gitBranch, comment, with type, target, gitBranch and comment
\* taken from type, target, git_branch and description; it has none of the
\* derived CI/CD fields, and it is returned whether or not the CI/CD
\* projection of the same record can be computed.
C8_VercelProjection ==
    Called("to_vercel_dict") =>
        /\ result.ret.ok
        /\ DOMAIN result.ret.value =
              {"key", "value", "type", "target", "gitBranch", "comment"}
        /\ result.ret.value.type = record.type
        /\ result.ret.value.target = record.target
        /\ result.ret.value.gitBranch = record.git_branch
        /\ result.ret.value.comment = record.description

C8_Witness ==
    /\ Called("to_vercel_dict")
    /\ record.git_branch = Str("main")
    /\ record.description = None
    /\ record.target = List(<<"preview", "production">>)
    /\ result.ret.value.gitBranch = Str("main")

\* C9: a POST /env whose body validates answers with the two derived
\* payloads of the constructed record.
C9_SuccessResponseCarriesPayloads ==
    (IsPostEnv /\ response.status = 200) =>
        /\ to_vercel_dict(record).ok
        /\ to_gitlab_dict(record).ok
        /\ response.body = [vercel |-> to_vercel_dict(record).value,
                            gitlab |-> to_gitlab_dict(record).value]

\* C10: protected() and to_gitlab_dict() return (a boolean, a payload) on
\* every accepted record, target = null and target = [] included; neither
\* raises.
C10_ProtectedAndGitlabTotal ==
    /\ Called("protected") => (result.ret.ok /\ result.ret.value \in BOOLEAN)
    /\ Called("to_gitlab_dict") => result.ret.ok

====
